---- MODULE Spec2Model ----
(***************************************************************************)
(* FT-Echo: the server's per-connection command loop and transfer          *)
(* handlers (tcp_server.py), the synchronous client driver                 *)
(* (tcp_client_lib.py) and the storage directory they share.               *)
(*                                                                         *)
(* Text and byte strings are sequences of tokens.  A token is one unit of  *)
(* text: a file byte ("x", "y"), a separator ("|", "\n", ".part", " "),    *)
(* a decimal number ("0".."9", "-1"), a JSON punctuation mark, or a fixed  *)
(* piece of message text.  A file name is the token sequence of its        *)
(* characters, so <<"a", ".part">> is the name "a.part".                   *)
(*                                                                         *)
(* SHA-256 is taken to be collision free: a running hash is the sequence   *)
(* of bytes fed to update(), and hexdigest() wraps that sequence.          *)
(***************************************************************************)
EXTENDS Integers, Sequences, FiniteSets, TLC

(* ------------------------------ bounds -------------------------------- *)

\* CHUNK_SIZE is 4096 in tcp_server.py:30 and tcp_client_lib.py:12; the model
\* scales it down so that files longer than one chunk stay enumerable.
CHUNK_SIZE == 1

\* The longest file content the peers upload: one byte more than a chunk.
MaxLen == CHUNK_SIZE + 1

Bytes == {"x", "y"}

\* The byte a hole reads as when a write lands beyond the end of a file.
NUL == "nul"

Contents(n) == UNION {[1..k -> Bytes] : k \in 0..n}

\* The payloads of the F frames a peer sends: a peer may exceed CHUNK_SIZE.
Chunks == Contents(MaxLen)

Conns == {1, 2}

(* --------------------------- text operations -------------------------- *)

Contains(s, t) == \E i \in 1..Len(s) : s[i] = t

FirstIndex(s, t) ==
    CHOOSE i \in 1..Len(s) : s[i] = t /\ \A j \in 1..(i - 1) : s[j] # t

\* str.split(t, 1) of a string that contains t
SplitOnce(s, t) ==
    LET i == FirstIndex(s, t)
    IN  <<SubSeq(s, 1, i - 1), SubSeq(s, i + 1, Len(s))>>

\* str.split(t)
RECURSIVE Split(_, _)
Split(s, t) ==
    IF Contains(s, t)
    THEN LET p == SplitOnce(s, t) IN <<p[1]>> \o Split(p[2], t)
    ELSE <<s>>

\* sep.join(parts)
RECURSIVE Join(_, _)
Join(parts, sep) ==
    IF parts = <<>> THEN <<>>
    ELSE IF Len(parts) = 1 THEN parts[1]
    ELSE parts[1] \o <<sep>> \o Join(Tail(parts), sep)

Whitespace == {" ", "\n"}

RECURSIVE LStrip(_)
LStrip(s) == IF s # <<>> /\ Head(s) \in Whitespace THEN LStrip(Tail(s)) ELSE s

RECURSIVE RStrip(_)
RStrip(s) ==
    IF s # <<>> /\ s[Len(s)] \in Whitespace
    THEN RStrip(SubSeq(s, 1, Len(s) - 1))
    ELSE s

\* str.strip()
Strip(s) == RStrip(LStrip(s))

EndsWith(s, t) == s # <<>> /\ s[Len(s)] = t

DecTokens == <<"0", "1", "2", "3", "4", "5", "6", "7", "8", "9">>

\* str(n) of the f-strings and of json.dumps
Str(n) == IF n < 0 THEN "-1" ELSE DecTokens[n + 1]

IsDecToken(t) == t = "-1" \/ \E n \in 1..Len(DecTokens) : DecTokens[n] = t

\* whether int(s) succeeds: int() ignores surrounding whitespace
IsInt(s) == Len(Strip(s)) = 1 /\ IsDecToken(Strip(s)[1])

\* int(s)
ToInt(s) ==
    LET t == Strip(s)[1]
    IN  IF t = "-1" THEN -1
        ELSE (CHOOSE n \in 1..Len(DecTokens) : DecTokens[n] = t) - 1

\* A byte that is no valid UTF-8 (and no ASCII) on its own.
BadByte == "\\xff"

\* whether bytes.decode('utf-8') succeeds
IsUtf8(p) == ~Contains(p, BadByte)

\* hashlib.sha256().update(...).hexdigest() over the bytes s
HexDigest(s) == <<"sha256(">> \o s \o <<")">>

(* -------------------------------- JSON -------------------------------- *)

QUOTE == "\""

JStr(s) == <<QUOTE>> \o s \o <<QUOTE>>

JInt(n) == <<Str(n)>>

JMember(kv) == <<QUOTE, kv[1], QUOTE, ":">> \o kv[2]

\* json.dumps of an object given as a sequence of <<key, encoded value>>
JsonDumps(members) ==
    <<"{">> \o Join([i \in 1..Len(members) |-> JMember(members[i])], ",") \o <<"}">>

JValueOk(v) ==
    \/ Len(v) = 1 /\ IsDecToken(v[1])
    \/ /\ Len(v) >= 2
       /\ v[1] = QUOTE
       /\ v[Len(v)] = QUOTE
       /\ \A i \in 2..(Len(v) - 1) : v[i] # QUOTE

JMemberOk(m) ==
    /\ Len(m) >= 5
    /\ m[1] = QUOTE
    /\ m[3] = QUOTE
    /\ m[4] = ":"
    /\ JValueOk(SubSeq(m, 5, Len(m)))

\* json.loads: ok is FALSE for JSONDecodeError; isobj tells a dict from
\* another JSON value; members are the <<key, encoded value>> pairs.
JsonLoads(s) ==
    IF Len(s) >= 2 /\ s[1] = "{" /\ s[Len(s)] = "}"
    THEN LET body == SubSeq(s, 2, Len(s) - 1)
             parts == IF body = <<>> THEN <<>> ELSE Split(body, ",")
         IN  IF \A i \in 1..Len(parts) : JMemberOk(parts[i])
             THEN [ok |-> TRUE, isobj |-> TRUE,
                   members |-> [i \in 1..Len(parts) |->
                       <<parts[i][2], SubSeq(parts[i], 5, Len(parts[i]))>>]]
             ELSE [ok |-> FALSE, isobj |-> FALSE, members |-> <<>>]
    ELSE IF Len(s) = 1 /\ IsDecToken(s[1])
    THEN [ok |-> TRUE, isobj |-> FALSE, members |-> <<>>]
    ELSE [ok |-> FALSE, isobj |-> FALSE, members |-> <<>>]

HasKey(members, k) == \E i \in 1..Len(members) : members[i][1] = k

\* obj[k] of a dict that has k
Get(members, k) ==
    members[CHOOSE i \in 1..Len(members) : members[i][1] = k][2]

\* the Python value of an encoded JSON string
JText(v) == SubSeq(v, 2, Len(v) - 1)

(* ------------------------------- frames ------------------------------- *)

Frame(t, p) == [type |-> t, payload |-> p]

\* A frame whose 4-byte length field is 0 (no type byte, no payload).
LEN0 == "len=0"

\* recv_message: "ok", or "ValueError" for a length below 1 and for a type
\* byte that decode('ascii') rejects (UnicodeDecodeError is a ValueError).
RecvOutcome(f) ==
    IF f.type = LEN0 THEN "ValueError"
    ELSE IF f.type = BadByte THEN "ValueError"
    ELSE "ok"

(* ------------------------------ storage ------------------------------- *)

\* The storage directory is a set of files.  A file has at most one name
\* (<<>> once unlinked or renamed over, while a handler still holds it
\* open), its bytes, and the connections whose handler holds it open.
\* committed records that the name was given by a commit rename.
File(name, data, committed, holders) ==
    [name |-> name, data |-> data, committed |-> committed, holders |-> holders]

\* Path.exists()
Exists(f, name) == \E r \in f : r.name = name

At(f, name) == CHOOSE r \in f : r.name = name

\* Path.stat().st_size
SizeOf(f, name) == Len(At(f, name).data)

\* The file connection c's handler holds open
Held(f, c) == CHOOSE r \in f : c \in r.holders

Replace(f, old, new) == (f \ {old}) \cup {new}

\* open(path, 'wb') by c's handler: truncate the file at path, or create it
OpenTrunc(f, name, c) ==
    IF Exists(f, name)
    THEN Replace(f, At(f, name),
                 [At(f, name) EXCEPT !.data = <<>>, !.holders = @ \cup {c}])
    ELSE f \cup {File(name, <<>>, FALSE, {c})}

\* open(path, 'ab') or open(path, 'rb') of an existing file by c's handler
Open(f, name, c) ==
    Replace(f, At(f, name), [At(f, name) EXCEPT !.holders = @ \cup {c}])

\* Path.unlink()
Unlink(f, name) ==
    Replace(f, At(f, name), [At(f, name) EXCEPT !.name = <<>>, !.committed = FALSE])

\* Path.rename(dst) of an existing src: replaces dst
Rename(f, src, dst) ==
    LET moved == [At(f, src) EXCEPT !.name = dst, !.committed = TRUE]
        rest  == f \ {At(f, src)}
    IN  IF Exists(rest, dst)
        THEN Replace(rest, At(rest, dst),
                     [At(rest, dst) EXCEPT !.name = <<>>, !.committed = FALSE])
             \cup {moved}
        ELSE rest \cup {moved}

Pad(n) == [i \in 1..n |-> NUL]

\* write(buf) at file position pos of a file opened 'wb'
WriteAt(d, pos, buf) ==
    IF pos >= Len(d)
    THEN d \o Pad(pos - Len(d)) \o buf
    ELSE SubSeq(d, 1, pos) \o buf \o SubSeq(d, pos + Len(buf) + 1, Len(d))

\* A read that returns the rest of the file whatever size was asked for
ReadRest(d, pos, n) == SubSeq(d, pos + 1, Len(d))

\* f.read(n) at file position pos
ReadAt(d, pos, n) ==
    SubSeq(d, pos + 1, IF pos + n < Len(d) THEN pos + n ELSE Len(d))

\* c's handler closes its file
Release(f, c) == {[r EXCEPT !.holders = @ \ {c}] : r \in f}

\* A file without a name that no handler holds open is gone.
Collect(f) == {r \in f : r.name # <<>> \/ r.holders # {}}

(* --------------------------- handler state ---------------------------- *)

\* The locals of the handler a connection is in: filename, file_size (PUT)
\* or the size announced (GET), total_received, the running sha256, the
\* open file's mode ("" when none is open) and file position, and wbuf,
\* the bytes written to the file object and not yet flushed.
H0 == [filename |-> <<>>, file_size |-> 0, total |-> 0, sha |-> <<>>,
       mode |-> "", pos |-> 0, wbuf |-> <<>>]

Result(pc, hh, f, out) == [pc |-> pc, h |-> hh, fs |-> f, out |-> out]

\* The buffered writer of c's handler writes its buffer out: at the file
\* position of a file opened 'wb', at the end of a file opened 'ab'.
Flush(f, c, hh) ==
    IF hh.wbuf = <<>> THEN f
    ELSE IF hh.mode = "ab"
    THEN Replace(f, Held(f, c), [Held(f, c) EXCEPT !.data = @ \o hh.wbuf])
    ELSE Replace(f, Held(f, c),
                 [Held(f, c) EXCEPT !.data = WriteAt(@, hh.pos, hh.wbuf)])

Flushed(hh) == [hh EXCEPT !.pos = @ + Len(hh.wbuf), !.wbuf = <<>>]

\* f.close(): flush, then let go of the file
Close(f, c, hh) == Release(Flush(f, c, hh), c)

\* An upload staged under the final name itself
StageInPlace(filename) == filename

TempPath(filename) == filename \o <<".part">>

(* ------------------------- server: LIST, GET -------------------------- *)

O(p) == Frame("O", p)

E(p) == Frame("E", p)

\* handle_list's filter on a directory entry
IsListed(name) == ~EndsWith(name, ".part")

Listed(f) == {r \in f : r.name # <<>> /\ IsListed(r.name)}

\* The orders iterdir() may yield the listed entries in.
Orders(S) ==
    {o \in [1..Cardinality(S) -> S] : \A i, j \in DOMAIN o : i # j => o[i] # o[j]}

ListLine(r) == r.name \o <<"|", Str(Len(r.data))>>

\* handle_list, with the listed entries in the order iterdir() yields them
HandleList(f, order) ==
    LET lines   == [k \in 1..Len(order) |-> ListLine(order[k])]
        listing == Join(lines, "\n") \o <<"\n">>
    IN  Result("await", H0, f, <<O(listing)>>)

\* handle_get up to the metadata frame: the file is opened after it is sent
HandleGet(f, filename) ==
    IF ~Exists(f, filename)
    THEN Result("await", H0, f, <<E(<<"File not found: ">> \o filename)>>)
    ELSE Result("get",
                [H0 EXCEPT !.filename = filename, !.file_size = SizeOf(f, filename)],
                f,
                <<O(JsonDumps(<< <<"size", JInt(SizeOf(f, filename))>> >>))>>)

\* handle_get_resume up to the metadata frame
HandleGetResume(f, filename, offset) ==
    IF ~Exists(f, filename)
    THEN Result("await", H0, f, <<E(<<"File not found: ">> \o filename)>>)
    ELSE IF offset >= SizeOf(f, filename)
    THEN Result("await", H0, f,
                <<E(<<"Offset ", Str(offset), " exceeds file size ",
                      Str(SizeOf(f, filename))>>)>>)
    ELSE LET meta == JsonDumps(<< <<"size", JInt(SizeOf(f, filename))>>,
                                  <<"offset", JInt(offset)>> >>)
         IN  IF offset < 0
             THEN Result("closed", H0, f, <<O(meta)>>)   \* f.seek(offset) raises
             ELSE Result("get",
                         [H0 EXCEPT !.filename = filename,
                                    !.file_size = SizeOf(f, filename),
                                    !.pos = offset],
                         f, <<O(meta)>>)

\* One turn of the streaming loop of handle_get and handle_get_resume on
\* connection c: the first turn opens the file; each turn reads a chunk and
\* sends it as F, or sends S at the end of the file.
GetStep(f, c, hh) ==
    IF hh.mode = "" /\ ~Exists(f, hh.filename)
    THEN Result("closed", H0, f, <<>>)                   \* open() raises
    ELSE LET f1 == IF hh.mode = "" THEN Open(f, hh.filename, c) ELSE f
             chunk == ReadAt(Held(f1, c).data, hh.pos, CHUNK_SIZE)
         IN  IF chunk = <<>>
             THEN Result("await", H0, f1, <<Frame("S", HexDigest(hh.sha))>>)
             ELSE Result("get",
                         [hh EXCEPT !.mode = "rb", !.pos = @ + Len(chunk),
                                    !.sha = @ \o chunk],
                         f1, <<Frame("F", chunk)>>)

(* ---------------------------- server: PUT ----------------------------- *)

Meta(err, filename, n) == [err |-> err, filename |-> filename, n |-> n]

\* handle_put's parse of the metadata payload: err is "" on success, the
\* exception class otherwise
ParsePutMeta(p) ==
    IF ~IsUtf8(p) THEN Meta("ValueError", <<>>, 0)
    ELSE IF Contains(p, "|")
    THEN LET parts == SplitOnce(p, "|")
         IN  IF IsInt(parts[2])
             THEN Meta("", parts[1], ToInt(parts[2]))
             ELSE Meta("ValueError", <<>>, 0)
    ELSE LET j == JsonLoads(p)
         IN  IF ~j.ok THEN Meta("ValueError", <<>>, 0)
             ELSE IF ~j.isobj THEN Meta("TypeError", <<>>, 0)
             ELSE IF ~HasKey(j.members, "filename") \/ ~HasKey(j.members, "size")
             THEN Meta("KeyError", <<>>, 0)
             ELSE Meta("", JText(Get(j.members, "filename")),
                       ToInt(Get(j.members, "size")))

\* The exceptions the parse of handle_put (and of handle_put_resume) catches
\* and answers with E: ValueError and its subclasses.
ParseCaught(err) == err = "ValueError"

\* handle_put's except block on connection c: the file has been closed, the
\* .part file is deleted
PutFail(f, c, hh, pc, text) ==
    LET f1 == Close(f, c, hh)
        temp == TempPath(hh.filename)
    IN  Result(pc, H0,
               IF Exists(f1, temp) THEN Unlink(f1, temp) ELSE f1,
               <<E(<<"PUT failed: ">> \o text)>>)

\* A check that lets an upload longer than announced through
SizeShort(total_received, file_size) == total_received < file_size

\* handle_put's check after its receive loop
SizeMismatch(total_received, file_size) == total_received # file_size

\* handle_put after its receive loop: close, check the size, rename, O
PutFinish(f, c, hh, out) ==
    LET f1 == Close(f, c, hh)
        temp == TempPath(hh.filename)
    IN  IF SizeMismatch(hh.total, hh.file_size)
        THEN LET r == PutFail(f, c, hh, "await",
                              <<"Size mismatch: expected ", Str(hh.file_size),
                                ", received ", Str(hh.total)>>)
             IN  [r EXCEPT !.out = out \o @]
        ELSE IF ~Exists(f1, temp)
        THEN LET r == PutFail(f, c, hh, "await", <<"[Errno 2] No such file">>)
             IN  [r EXCEPT !.out = out \o @]
        ELSE Result("await", H0, Rename(f1, temp, hh.filename),
                    out \o <<O(HexDigest(hh.sha))>>)

\* handle_put on connection c from the metadata to its first receive
HandlePut(f, c, p) ==
    LET m == ParsePutMeta(p)
    IN  IF m.err # ""
        THEN IF ParseCaught(m.err)
             THEN Result("await", H0, f, <<E(<<"Invalid metadata: ">>)>>)
             ELSE Result("closed", H0, f, <<>>)
        ELSE LET f1   == OpenTrunc(f, TempPath(m.filename), c)
                 hh   == [H0 EXCEPT !.filename = m.filename, !.file_size = m.n,
                                    !.mode = "wb"]
                 ack  == <<O(<<"Ready to receive">>)>>
             IN  IF 0 < m.n
                 THEN Result("put", hh, f1, ack)
                 ELSE PutFinish(f1, c, hh, ack)

\* One turn of handle_put's receive loop on an F frame; flush tells whether
\* the buffered writer writes its buffer out on this write.
PutChunk(f, c, hh, chunk, flush) ==
    LET h1 == [hh EXCEPT !.wbuf = @ \o chunk, !.sha = @ \o chunk,
                         !.total = @ + Len(chunk)]
    IN  IF h1.total < h1.file_size
        THEN IF flush
             THEN Result("put", Flushed(h1), Flush(f, c, h1), <<>>)
             ELSE Result("put", h1, f, <<>>)
        ELSE PutFinish(f, c, h1, <<>>)

(* ------------------------- server: PUT-RESUME ------------------------- *)

Resume(err, filename, n, direction) ==
    [err |-> err, filename |-> filename, n |-> n, direction |-> direction]

\* handle_client's parse of an R payload
ParseResume(p) ==
    IF ~IsUtf8(p) THEN Resume("ValueError", <<>>, 0, <<>>)
    ELSE IF Contains(p, "|")
    THEN LET parts == Split(p, "|")
         IN  IF IsInt(parts[2])
             THEN Resume("", parts[1], ToInt(parts[2]),
                         IF Len(parts) > 2 THEN parts[3] ELSE <<"get">>)
             ELSE Resume("ValueError", <<>>, 0, <<>>)
    ELSE LET j == JsonLoads(p)
         IN  IF ~j.ok THEN Resume("ValueError", <<>>, 0, <<>>)
             ELSE IF ~j.isobj THEN Resume("TypeError", <<>>, 0, <<>>)
             ELSE IF ~HasKey(j.members, "filename") \/ ~HasKey(j.members, "offset")
             THEN Resume("KeyError", <<>>, 0, <<>>)
             ELSE Resume("", JText(Get(j.members, "filename")),
                         ToInt(Get(j.members, "offset")),
                         IF HasKey(j.members, "direction")
                         THEN JText(Get(j.members, "direction"))
                         ELSE <<"get">>)

\* handle_put_resume's own parse of the same payload
ParsePutResumeMeta(p) ==
    IF ~IsUtf8(p) THEN Meta("ValueError", <<>>, 0)
    ELSE IF Contains(p, "|")
    THEN LET parts == Split(p, "|")
         IN  IF IsInt(parts[2])
             THEN Meta("", parts[1], ToInt(parts[2]))
             ELSE Meta("ValueError", <<>>, 0)
    ELSE LET j == JsonLoads(p)
         IN  IF ~j.ok THEN Meta("ValueError", <<>>, 0)
             ELSE IF ~j.isobj THEN Meta("TypeError", <<>>, 0)
             ELSE IF ~HasKey(j.members, "filename") \/ ~HasKey(j.members, "offset")
             THEN Meta("KeyError", <<>>, 0)
             ELSE Meta("", JText(Get(j.members, "filename")),
                       ToInt(Get(j.members, "offset")))

\* A check of the offset that lets an offset short of the size through
OffsetBeyond(offset, current_size) == offset > current_size

\* handle_put_resume's check of the offset against the .part file's size
OffsetMismatch(offset, current_size) == offset # current_size

\* handle_put_resume on connection c from the metadata to its first receive
HandlePutResume(f, c, p) ==
    LET m == ParsePutResumeMeta(p)
        temp == TempPath(m.filename)
    IN  IF m.err # ""
        THEN IF ParseCaught(m.err)
             THEN Result("await", H0, f, <<E(<<"Invalid metadata: ">>)>>)
             ELSE Result("closed", H0, f, <<>>)
        ELSE IF ~Exists(f, temp)
        THEN Result("await", H0, f,
                    <<E(<<"No partial file found for resume: ">> \o m.filename)>>)
        ELSE IF OffsetMismatch(m.n, SizeOf(f, temp))
        THEN Result("await", H0, f,
                    <<E(<<"Offset mismatch: expected ", Str(SizeOf(f, temp)),
                          ", got ", Str(m.n)>>)>>)
        ELSE Result("putresume",
                    [H0 EXCEPT !.filename = m.filename,
                               !.sha = At(f, temp).data,
                               !.total = SizeOf(f, temp),
                               !.mode = "ab"],
                    Open(f, temp, c),
                    <<O(JsonDumps(<< <<"offset", JInt(m.n)>>,
                                     <<"ready", <<"true">> >> >>))>>)

\* handle_put_resume's except block: the file has been closed, .part stays
PutResumeFail(f, c, hh, pc, text) ==
    Result(pc, H0, Close(f, c, hh), <<E(<<"PUT RESUME failed: ">> \o text)>>)

\* handle_put_resume on an F frame
PutResumeChunk(f, c, hh, chunk, flush) ==
    LET h1 == [hh EXCEPT !.wbuf = @ \o chunk, !.sha = @ \o chunk,
                         !.total = @ + Len(chunk)]
    IN  IF flush
        THEN Result("putresume", Flushed(h1), Flush(f, c, h1), <<>>)
        ELSE Result("putresume", h1, f, <<>>)

\* A comparison that accepts whatever digest the client sends
AnyChecksum(server_checksum, client_checksum) == TRUE

\* handle_put_resume's comparison of the two digests
ChecksumMatches(server_checksum, client_checksum) ==
    server_checksum = client_checksum

\* handle_put_resume on the S frame: close, compare, rename, O
PutResumeFinish(f, c, hh, payload) ==
    LET f1 == Close(f, c, hh)
        temp == TempPath(hh.filename)
    IN  IF ~IsUtf8(payload)
        THEN PutResumeFail(f, c, hh, "await", <<"'utf-8' codec can't decode">>)
        ELSE IF ~ChecksumMatches(HexDigest(hh.sha), payload)
        THEN PutResumeFail(f, c, hh, "await", <<"Checksum mismatch">>)
        ELSE IF ~Exists(f1, temp)
        THEN PutResumeFail(f, c, hh, "await", <<"[Errno 2] No such file">>)
        ELSE Result("await", H0, Rename(f1, temp, hh.filename),
                    <<O(HexDigest(hh.sha))>>)

\* handle_client's R branch
HandleResume(f, c, p) ==
    LET m == ParseResume(p)
    IN  IF m.err = "ValueError"
        THEN Result("await", H0, f, <<E(<<"Invalid RESUME format: ">>)>>)
        ELSE IF m.err # ""
        THEN Result("closed", H0, f, <<>>)
        ELSE IF m.direction = <<"get">>
        THEN HandleGetResume(f, m.filename, m.n)
        ELSE IF m.direction = <<"put">>
        THEN HandlePutResume(f, c, p)
        ELSE Result("await", H0, f,
                    <<E(<<"Invalid direction: ">> \o m.direction)>>)

(* ------------------------------- state -------------------------------- *)

VARIABLES
    fs,          \* the storage directory
    spc,         \* per connection: where handle_client is
    h,           \* per connection: the running handler's locals
    cmd,         \* per connection: the frame handle_client's recv_message returned last
    resp,        \* per connection: the frames sent for the current command
    ran,         \* the connection whose server task took the last step, or 0
    c2s,         \* per connection: frames written by the peer, not yet read
    peerclosed,  \* per connection: the peer has closed its end
    s2c,         \* per connection: frames for the client driver, not yet read
    sock,        \* the client driver's self.sock: a connection, 0 for None
    cpc,         \* where the client driver's current operation is
    cop,         \* the current operation's arguments and locals
    cres,        \* the last finished operation and how it ended
    local,       \* the files on the client's side
    nops,        \* the list_files, get_file and put_file calls made so far
    lastPut,     \* the sources of the last two put_file calls that returned
    script       \* a scripted peer's remaining events

clivars == <<sock, cpc, cop, cres, local, nops, lastPut>>

vars == <<fs, spc, h, cmd, resp, ran, c2s, peerclosed, s2c, sock, cpc, cop,
          cres, local, nops, lastPut, script>>

NoFrame == Frame("", <<>>)

\* What recv_message yields when the peer has closed: ConnectionError.
EOF == Frame("EOF", <<>>)

\* The frames recv_message may return next on connection c: the head of the
\* stream, or, from a peer that is not the client driver, any frame of F
\* written now.  A PUT-RESUME takes F frames without end: such a peer stops
\* at MaxLen bytes.
Arriving(c, F) ==
    IF c2s[c] # <<>> THEN {Head(c2s[c])}
    ELSE IF c = sock \/ peerclosed[c] \/ script # <<>> THEN {}
    ELSE {f \in F : (f.type = "F" /\ spc[c] = "putresume")
                        => h[c].total + Len(f.payload) <= MaxLen}

\* The server's step on connection c with result r, on the frame f it read
\* (NoFrame: it read none).  fresh: the step is handle_client's own read of
\* f, which starts a command and its response.
Serve(c, f, r, fresh) ==
    /\ spc' = [spc EXCEPT ![c] = r.pc]
    /\ h' = [h EXCEPT ![c] = r.h]
    /\ fs' = Collect(IF r.pc \in {"await", "closed"} THEN Release(r.fs, c) ELSE r.fs)
    /\ cmd' = [cmd EXCEPT ![c] = IF fresh THEN f ELSE @]
    /\ resp' = [resp EXCEPT ![c] = IF fresh THEN r.out ELSE @ \o r.out]
    /\ ran' = c
    /\ s2c' = IF sock = c /\ ~peerclosed[c]
              THEN [s2c EXCEPT ![c] = @ \o r.out] ELSE s2c
    /\ c2s' = [c2s EXCEPT ![c] = IF r.pc = "closed" THEN <<>>
                                 ELSE IF f = NoFrame \/ @ = <<>> THEN @
                                 ELSE Tail(@)]
    /\ UNCHANGED <<peerclosed, clivars, script>>

\* recv_message returns f
Reads(c, pc, f) == spc[c] = pc /\ RecvOutcome(f) = "ok"

\* recv_message raises ValueError on f
ReadsBad(c, pc, f) == spc[c] = pc /\ RecvOutcome(f) # "ok"

\* recv_exact raises ConnectionError: the stream is empty and the peer has
\* closed its end (a peer that is neither the client driver nor following a
\* script may close it now)
ReadsEOF(c, pc) ==
    /\ spc[c] = pc
    /\ c2s[c] = <<>>
    /\ peerclosed[c] \/ (c # sock /\ script = <<>>)

Closed == Result("closed", H0, fs, <<>>)

KnownTypes == {"Q", "L", "G", "P", "R", "S"}

(* ----------------------- server: handle_client ------------------------ *)

\* A quit that answers and goes on reading commands
QuitStaysOpen(f) == Result("await", H0, f, <<O(<<"Goodbye">>)>>)

\* The Q branch: the answer, then break out of the command loop
HandleQuit(f) == Result("closed", H0, f, <<O(<<"Goodbye">>)>>)

SrvQuit(c, F) ==
    \E f \in Arriving(c, F) :
        /\ Reads(c, "await", f)
        /\ f.type = "Q"
        /\ Serve(c, f, HandleQuit(fs), TRUE)

SrvList(c, F) ==
    \E f \in Arriving(c, F) :
        /\ Reads(c, "await", f)
        /\ f.type = "L"
        /\ \E order \in Orders(Listed(fs)) :
               Serve(c, f, HandleList(fs, order), TRUE)

SrvGet(c, F) ==
    \E f \in Arriving(c, F) :
        /\ Reads(c, "await", f)
        /\ f.type = "G"
        /\ Serve(c, f,
                 IF IsUtf8(f.payload) THEN HandleGet(fs, Strip(f.payload))
                 ELSE Closed,
                 TRUE)

SrvGetStep(c) ==
    /\ spc[c] = "get"
    /\ Serve(c, NoFrame, GetStep(fs, c, h[c]), FALSE)

SrvPut(c, F) ==
    \E f \in Arriving(c, F) :
        /\ Reads(c, "await", f)
        /\ f.type = "P"
        /\ Serve(c, f, HandlePut(fs, c, f.payload), TRUE)

SrvResume(c, F) ==
    \E f \in Arriving(c, F) :
        /\ Reads(c, "await", f)
        /\ f.type = "R"
        /\ Serve(c, f, HandleResume(fs, c, f.payload), TRUE)

\* An S branch that answers nothing
ChecksumSilent(f) == Result("await", H0, f, <<>>)

\* The S branch of the command loop
HandleChecksum(f) ==
    Result("await", H0, f, <<E(<<"Unexpected checksum message">>)>>)

SrvChecksum(c, F) ==
    \E f \in Arriving(c, F) :
        /\ Reads(c, "await", f)
        /\ f.type = "S"
        /\ Serve(c, f, HandleChecksum(fs), TRUE)

SrvUnknown(c, F) ==
    \E f \in Arriving(c, F) :
        /\ Reads(c, "await", f)
        /\ f.type \notin KnownTypes
        /\ Serve(c, f,
                 Result("await", H0, fs,
                        <<E(<<"Unknown message type: ", f.type>>)>>),
                 TRUE)

\* recv_message raises in handle_client's loop: the connection ends
SrvBadFrame(c, F) ==
    \E f \in Arriving(c, F) :
        /\ ReadsBad(c, "await", f)
        /\ Serve(c, f, Closed, TRUE)

SrvEOF(c) ==
    /\ ReadsEOF(c, "await")
    /\ Serve(c, EOF, Closed, TRUE)

(* ---------------- server: inside handle_put's loop -------------------- *)

\* B: whether the buffered writer may (TRUE) and may not (FALSE) write its
\* buffer out on a write; it always does on close.
SrvPutChunk(c, F, B) ==
    \E f \in Arriving(c, F) :
        /\ Reads(c, "put", f)
        /\ f.type = "F"
        /\ \E flush \in B :
               Serve(c, f, PutChunk(fs, c, h[c], f.payload, flush), FALSE)

SrvPutUnexpected(c, F) ==
    \E f \in Arriving(c, F) :
        /\ Reads(c, "put", f)
        /\ f.type # "F"
        /\ Serve(c, f,
                 PutFail(fs, c, h[c], "await", <<"Expected 'F' chunk, got ", f.type>>),
                 FALSE)

\* recv_message raises ValueError inside the try block
SrvPutBadFrame(c, F) ==
    \E f \in Arriving(c, F) :
        /\ ReadsBad(c, "put", f)
        /\ Serve(c, f,
                 PutFail(fs, c, h[c], "await", <<"Invalid message length: 0">>),
                 FALSE)

\* recv_exact raises ConnectionError inside the try block; handle_client's
\* next recv_message raises it again and the connection ends
SrvPutEOF(c) ==
    /\ ReadsEOF(c, "put")
    /\ Serve(c, EOF, PutFail(fs, c, h[c], "closed", <<"Connection closed">>), FALSE)

(* -------------- server: inside handle_put_resume's loop --------------- *)

SrvPutResumeChunk(c, F, B) ==
    \E f \in Arriving(c, F) :
        /\ Reads(c, "putresume", f)
        /\ f.type = "F"
        /\ \E flush \in B :
               Serve(c, f, PutResumeChunk(fs, c, h[c], f.payload, flush), FALSE)

SrvPutResumeChecksum(c, F) ==
    \E f \in Arriving(c, F) :
        /\ Reads(c, "putresume", f)
        /\ f.type = "S"
        /\ Serve(c, f, PutResumeFinish(fs, c, h[c], f.payload), FALSE)

SrvPutResumeUnexpected(c, F) ==
    \E f \in Arriving(c, F) :
        /\ Reads(c, "putresume", f)
        /\ f.type \notin {"F", "S"}
        /\ Serve(c, f,
                 PutResumeFail(fs, c, h[c], "await",
                               <<"Unexpected message type: ", f.type>>),
                 FALSE)

SrvPutResumeBadFrame(c, F) ==
    \E f \in Arriving(c, F) :
        /\ ReadsBad(c, "putresume", f)
        /\ Serve(c, f,
                 PutResumeFail(fs, c, h[c], "await", <<"Invalid message length: 0">>),
                 FALSE)

SrvPutResumeEOF(c) ==
    /\ ReadsEOF(c, "putresume")
    /\ Serve(c, EOF, PutResumeFail(fs, c, h[c], "closed", <<"Connection closed">>),
             FALSE)

(* ------------------------------ the peers ----------------------------- *)

\* asyncio.start_server accepts a connection and starts handle_client on it
Accept(c) ==
    /\ spc[c] \in {"none", "closed"}
    /\ c # sock
    /\ spc' = [spc EXCEPT ![c] = "await"]
    /\ cmd' = [cmd EXCEPT ![c] = NoFrame]
    /\ resp' = [resp EXCEPT ![c] = <<>>]
    /\ ran' = 0
    /\ c2s' = [c2s EXCEPT ![c] = <<>>]
    /\ s2c' = [s2c EXCEPT ![c] = <<>>]
    /\ peerclosed' = [peerclosed EXCEPT ![c] = FALSE]
    /\ UNCHANGED <<fs, h, clivars, script>>

(* ----------------- the frames a peer of one connection sends ---------- *)

NameA == <<"a">>

NameAPart == <<"a", ".part">>

NameASpace == <<"a", " ">>

\* A filename that contains the pipe character
NamePipe == <<"a", "|", "b">>

Sizes == 0..MaxLen

PipeMeta(name, n) == name \o <<"|", Str(n)>>

JsonPutMeta(name, n) ==
    JsonDumps(<< <<"filename", JStr(name)>>, <<"size", JInt(n)>> >>)

PipeResume(name, k, direction) == name \o <<"|", Str(k), "|", direction>>

JsonResume(name, k, direction) ==
    JsonDumps(<< <<"filename", JStr(name)>>, <<"offset", JInt(k)>>,
                 <<"direction", JStr(<<direction>>)>> >>)

PutPayloads ==
    {PipeMeta(n, k) : n \in {NameA, NameAPart}, k \in Sizes \cup {-1}}
    \cup {JsonPutMeta(NameA, k) : k \in {0, 1}}
    \cup {JsonPutMeta(NamePipe, 1)}
    \cup {NameA \o <<"|", "ten">>,
          JsonDumps(<< <<"size", JInt(1)>> >>),
          JsonDumps(<< <<"filename", JStr(NameA)>> >>),
          <<"5">>, <<"junk">>, <<BadByte>>}

ResumePayloads ==
    {PipeResume(NameA, k, d) : k \in Sizes \cup {-1}, d \in {"put", "get"}}
    \cup {NameA \o <<"|", "1">>,
          PipeResume(NameA, 0, "up"),
          NameA \o <<"|", "ten", "|", "put">>,
          JsonResume(NameA, 1, "put"),
          JsonResume(NameA, 0, "put"),
          JsonDumps(<< <<"filename", JStr(NameA)>>, <<"offset", JInt(0)>> >>),
          JsonDumps(<< <<"filename", JStr(NameA)>>,
                       <<"direction", JStr(<<"put">>)>> >>),
          <<"5">>, <<"junk">>, <<BadByte>>}

Digests == {HexDigest(d) : d \in Contents(MaxLen)} \cup {<<BadByte>>}

RawFrames ==
    {Frame("L", <<>>), Frame("Q", <<>>)}
    \cup {Frame("G", n) : n \in {NameA, NameAPart, NameASpace, <<BadByte>>}}
    \cup {Frame("P", p) : p \in PutPayloads}
    \cup {Frame("R", p) : p \in ResumePayloads}
    \cup {Frame("S", p) : p \in Digests}
    \cup {Frame("F", p) : p \in Chunks}
    \cup {Frame(t, <<>>) : t \in {"O", "E", "Z", BadByte, LEN0}}

(* ---------------- Spec: one connection at a time, any peer ------------ *)

NoClient ==
    /\ sock = 0
    /\ cpc = "idle"
    /\ cop = <<>>
    /\ cres = <<>>
    /\ local = <<>>
    /\ nops = 0
    /\ lastPut = <<>>
    /\ script = <<>>

InitServer ==
    /\ fs = {}
    /\ h = [c \in Conns |-> H0]
    /\ cmd = [c \in Conns |-> NoFrame]
    /\ resp = [c \in Conns |-> <<>>]
    /\ ran = 0
    /\ c2s = [c \in Conns |-> <<>>]
    /\ s2c = [c \in Conns |-> <<>>]
    /\ peerclosed = [c \in Conns |-> FALSE]

Init ==
    /\ InitServer
    /\ spc = [c \in Conns |-> IF c = 1 THEN "await" ELSE "none"]
    /\ NoClient

Next ==
    \/ SrvQuit(1, RawFrames)
    \/ SrvList(1, RawFrames)
    \/ SrvGet(1, RawFrames)
    \/ SrvGetStep(1)
    \/ SrvPut(1, RawFrames)
    \/ SrvResume(1, RawFrames)
    \/ SrvChecksum(1, RawFrames)
    \/ SrvUnknown(1, RawFrames)
    \/ SrvBadFrame(1, RawFrames)
    \/ SrvEOF(1)
    \/ SrvPutChunk(1, RawFrames, {TRUE})
    \/ SrvPutUnexpected(1, RawFrames)
    \/ SrvPutBadFrame(1, RawFrames)
    \/ SrvPutEOF(1)
    \/ SrvPutResumeChunk(1, RawFrames, {TRUE})
    \/ SrvPutResumeChecksum(1, RawFrames)
    \/ SrvPutResumeUnexpected(1, RawFrames)
    \/ SrvPutResumeBadFrame(1, RawFrames)
    \/ SrvPutResumeEOF(1)
    \/ Accept(1)

Spec == Init /\ [][Next]_vars


(* ---------------------- properties checked under Spec ----------------- *)

\* Connection c has just been answered a LIST.
JustListed(c) == ran = c /\ cmd[c].type = "L" /\ Len(resp[c]) = 1

\* The lines of the listing sent on connection c
ListLines(c) ==
    LET parts == Split(resp[c][1].payload, "\n")
    IN  SubSeq(parts, 1, Len(parts) - 1)

StartsWith(s, prefix) ==
    Len(prefix) <= Len(s) /\ SubSeq(s, 1, Len(prefix)) = prefix

\* C3: the LIST response has exactly one name|size line for every committed
\* file, whatever filename its upload used, with its current size, and no
\* line for a staged .part upload.
C3_ListShowsEveryCommittedFile ==
    \A c \in Conns :
        JustListed(c) =>
            /\ \A r \in fs :
                   (r.name # <<>> /\ r.committed) =>
                       Cardinality({k \in DOMAIN ListLines(c) :
                                       ListLines(c)[k]
                                           = r.name \o <<"|", Str(Len(r.data))>>}) = 1
            /\ \A r \in fs :
                   (r.name # <<>> /\ ~r.committed) =>
                       \A k \in DOMAIN ListLines(c) :
                           ~StartsWith(ListLines(c)[k], r.name \o <<"|">>)

\* The PUT-RESUME requests for NameA at offset k, in both metadata forms
PutResumeRequests(k) ==
    {Frame("R", PipeResume(NameA, k, "put")), Frame("R", JsonResume(NameA, k, "put"))}

\* C6: a PUT-RESUME for N whose offset differs from the current size of
\* N.part is answered with the one frame E "Offset mismatch: expected
\* <current>, got <offset>", the storage is as before (N.part unchanged, no
\* committed file created or changed), no O is sent and the connection
\* awaits the next command.
C6_OffsetMismatchRejected ==
    [][\A c \in Conns :
           (spc[c] = "await" /\ ran' = c /\ cmd'[c].type = "R") =>
               \A k \in Sizes \cup {-1} :
                   (/\ cmd'[c] \in PutResumeRequests(k)
                    /\ Exists(fs, TempPath(NameA))
                    /\ k # SizeOf(fs, TempPath(NameA)))
                   => /\ resp'[c] = <<E(<<"Offset mismatch: expected ",
                                          Str(SizeOf(fs, TempPath(NameA))),
                                          ", got ", Str(k)>>)>>
                      /\ fs' = fs
                      /\ spc'[c] = "await"]_vars

\* A PUT-RESUME at offset 2 has just been refused against a 1-byte a.part.
C6_Witness ==
    \E c \in Conns :
        /\ ran = c
        /\ cmd[c] \in PutResumeRequests(2)
        /\ Exists(fs, TempPath(NameA))
        /\ SizeOf(fs, TempPath(NameA)) = 1
        /\ resp[c] = <<E(<<"Offset mismatch: expected ", "1", ", got ", "2">>)>>

\* C8: when the peer closes the connection while a PUT for N is receiving F
\* frames, N.part stays in place with the bytes received so far.
C8_InterruptedPutKeepsPart ==
    [][\A c \in Conns :
           (spc[c] = "put" /\ ran' = c /\ spc'[c] = "closed")
           => /\ Exists(fs', TempPath(h[c].filename))
              /\ At(fs', TempPath(h[c].filename)).data = h[c].sha]_vars

\* The type bytes outside the commands, a byte above 0x7f among them
OtherTypes == {"O", "E", "F", "Z", BadByte}

\* C9: a frame of any type other than L, G, P, R, Q, S read in AwaitCommand
\* is answered with the one frame E "Unknown message type: <type>" and the
\* connection stays open in AwaitCommand.
C9_UnknownTypeAnswered ==
    [][\A c \in Conns :
           (spc[c] = "await" /\ ran' = c /\ cmd'[c].type \in OtherTypes)
           => /\ resp'[c] = <<E(<<"Unknown message type: ", cmd'[c].type>>)>>
              /\ spc'[c] = "await"]_vars

\* C10: a command that fails in its handler is answered with E and leaves
\* the connection open: handle_client ends a connection only on Q, on a
\* frame recv_message rejects, or when the peer has closed.
C10_ClosesOnlyOnQuitOrTransport ==
    [][\A c \in Conns :
           (spc[c] = "await" /\ ran' = c /\ spc'[c] = "closed")
           => \/ cmd'[c].type = "Q"
              \/ cmd'[c] = EOF
              \/ RecvOutcome(cmd'[c]) # "ok"]_vars


(* ------------- SpecConc: two connections, peers that upload ----------- *)

Last(s) == s[Len(s)]

\* What the two peers send: uploads of NameA of one and two bytes, a resumed
\* upload from offset 1, and reads.
ConcFrames ==
    {Frame("L", <<>>), Frame("G", NameA), Frame("G", NameAPart),
     Frame("P", PipeMeta(NameA, 1)), Frame("P", PipeMeta(NameA, 2)),
     Frame("R", PipeResume(NameA, 1, "put"))}
    \cup {Frame("F", <<b>>) : b \in Bytes}
    \cup {Frame("S", HexDigest(d)) : d \in [1..2 -> Bytes]}

InitConc ==
    /\ InitServer
    /\ spc = [c \in Conns |-> "await"]
    /\ NoClient

NextConc ==
    \/ \E c \in Conns : SrvList(c, ConcFrames)
    \/ \E c \in Conns : SrvGet(c, ConcFrames)
    \/ \E c \in Conns : SrvGetStep(c)
    \/ \E c \in Conns : SrvPut(c, ConcFrames)
    \/ \E c \in Conns : SrvResume(c, ConcFrames)
    \/ \E c \in Conns : SrvPutChunk(c, ConcFrames, BOOLEAN)
    \/ \E c \in Conns : SrvPutResumeChunk(c, ConcFrames, BOOLEAN)
    \/ \E c \in Conns : SrvPutResumeChecksum(c, ConcFrames)

SpecConc == InitConc /\ [][NextConc]_vars

\* C4: with concurrent connections working on the same filename N, the
\* bytes stored under the committed name N are always the complete content
\* of one upload that the server committed and acknowledged with O: they
\* change only in a step that sends O with the digest of the new bytes.
C4_CommittedIsAcknowledgedUpload ==
    [][(/\ Exists(fs', NameA)
        /\ ~Exists(fs, NameA) \/ At(fs', NameA).data # At(fs, NameA).data)
       => \E c \in Conns :
              /\ ran' = c
              /\ resp'[c] # <<>>
              /\ Last(resp'[c]) = O(HexDigest(At(fs', NameA).data))]_vars


(* ------------------- the client driver: FTEchoClient ------------------ *)

\* The operation that begins is the first on its connection.
First == sock = 0 \/ (cmd[sock] = NoFrame /\ c2s[sock] = <<>>)

\* The list_files, get_file and put_file calls the client is followed through.
MaxOps == 3

\* The client's paths: two sources with the same file name, a path where
\* there is no file, and the destination of get_file.
Sources == {"d1", "d2", "nowhere"}

LocalFile(name, data, exists) == [name |-> name, data |-> data, exists |-> exists]

\* The locals of the operation in progress; first: it is the first operation
\* on its connection; dest: what get_file found at dest_path when called.
Op(op, src, filename, resume, offset, first) ==
    [op |-> op, src |-> src, filename |-> filename, resume |-> resume,
     offset |-> offset, sha |-> <<>>, total |-> 0, first |-> first,
     dest |-> LocalFile(<<>>, <<>>, FALSE)]

Idle == Op("", "", <<>>, FALSE, 0, FALSE)

\* How an operation ended: its return value, or the exception it raised
Returned(o, sha, size, files) ==
    [op |-> o.op, src |-> o.src, filename |-> o.filename, resume |-> o.resume,
     first |-> o.first, ok |-> TRUE, err |-> <<>>, sha |-> sha, size |-> size, files |-> files]

Raised(o, err) ==
    [op |-> o.op, src |-> o.src, filename |-> o.filename, resume |-> o.resume,
     first |-> o.first, ok |-> FALSE, err |-> err, sha |-> <<>>, size |-> 0, files |-> <<>>]

NoResult == Returned(Idle, <<>>, 0, <<>>)

\* The client connects again once the server is through with its last
\* connection, so one connection identity carries all of its connections.
ClientConns == {1}

FreeConns == {c \in ClientConns : spc[c] \in {"none", "closed"}}

\* The connection socket.connect() is accepted on
FreeConn == CHOOSE c \in FreeConns : \A d \in FreeConns : c <= d

\* self.sock.close(): the server reads end of stream after what was sent
Hangup(pcl) == IF sock = 0 THEN pcl ELSE [pcl EXCEPT ![sock] = TRUE]

\* connect(), then sendall of frames on the new connection c
ConnectAndSend(c, frames) ==
    /\ FreeConns # {}
    /\ c = FreeConn
    /\ sock' = c
    /\ spc' = [spc EXCEPT ![c] = "await"]
    /\ cmd' = [cmd EXCEPT ![c] = NoFrame]
    /\ resp' = [resp EXCEPT ![c] = <<>>]
    /\ c2s' = [c2s EXCEPT ![c] = frames]
    /\ s2c' = [s2c EXCEPT ![c] = <<>>]
    /\ peerclosed' = [Hangup(peerclosed) EXCEPT ![c] = FALSE]
    /\ ran' = 0
    /\ UNCHANGED <<fs, h, script>>

\* sendall of frames on the connection the driver has
Send(frames) ==
    /\ c2s' = [c2s EXCEPT ![sock] = IF peerclosed[sock] THEN @ ELSE @ \o frames]
    /\ ran' = 0
    /\ UNCHANGED <<fs, spc, h, cmd, resp, peerclosed, s2c, sock, script>>

\* An operation begins: "if not self.sock: self.connect()", then its request
Begin(frames) ==
    /\ cpc = "idle"
    /\ nops < MaxOps
    /\ IF sock = 0
       THEN \E c \in ClientConns : ConnectAndSend(c, frames)
       ELSE Send(frames)
    /\ nops' = nops + 1

\* recv_message of the client has something to return or to raise
CanRecv ==
    sock # 0 /\ (s2c[sock] # <<>> \/ spc[sock] = "closed" \/ peerclosed[sock])

\* The frame recv_message returns; EOF when recv_exact raises ConnectionError
Recvd == IF s2c[sock] # <<>> THEN Head(s2c[sock]) ELSE EOF

\* The client's step after recv_message: it goes to pc with locals o, ends
\* with result res (when pc is "idle"), and sends frames.
Step(pc, o, res, frames) ==
    /\ cpc' = pc
    /\ cop' = IF pc = "idle" THEN Idle ELSE o
    /\ cres' = IF pc = "idle" THEN res ELSE cres
    /\ s2c' = [s2c EXCEPT ![sock] = IF @ = <<>> THEN @ ELSE Tail(@)]
    /\ c2s' = [c2s EXCEPT ![sock] = IF peerclosed[sock] THEN @ ELSE @ \o frames]
    /\ ran' = 0
    /\ UNCHANGED <<fs, spc, h, cmd, resp, peerclosed, sock, nops, script>>

\* What each operation does with a first response that is not O
Refused(o, f) ==
    IF f = EOF THEN Raised(o, <<"ConnectionError">>)
    ELSE IF f.type = "E" THEN Raised(o, <<"Server error: ">> \o f.payload)
    ELSE Raised(o, <<"Unexpected response: ", f.type>>)


\* The transport of the driver's connection fails: both ends read end of
\* stream after what had arrived, and nothing sent afterwards is delivered.
\* The failure is explored during and after the driver's last operation.
ConnLost ==
    /\ sock # 0
    /\ nops = MaxOps
    /\ ~peerclosed[sock]
    /\ peerclosed' = [peerclosed EXCEPT ![sock] = TRUE]
    /\ ran' = 0
    /\ UNCHANGED <<fs, spc, h, cmd, resp, c2s, s2c, clivars, script>>

\* connect()
CConnect ==
    /\ cpc = "idle"
    /\ \E c \in ClientConns : ConnectAndSend(c, <<>>)
    /\ UNCHANGED <<cpc, cop, cres, local, nops, lastPut>>

\* close()
CClose ==
    /\ cpc = "idle"
    /\ sock # 0
    /\ sock' = 0
    /\ peerclosed' = Hangup(peerclosed)
    /\ ran' = 0
    /\ UNCHANGED <<fs, spc, h, cmd, resp, c2s, s2c, cpc, cop, cres, local,
                   nops, lastPut, script>>

(* list_files *)

CList ==
    /\ Begin(<<Frame("L", <<>>)>>)
    /\ cpc' = "list"
    /\ cop' = Op("list", "", <<>>, FALSE, 0, First)
    /\ UNCHANGED <<cres, local, lastPut>>

IsEntry(line) == line # <<>> /\ Contains(line, "|")

\* list_files' parse of the listing; ok is FALSE when int() raises
ParseListing(payload) ==
    LET lines   == SelectSeq(Split(Strip(payload), "\n"), IsEntry)
        entries == [k \in 1..Len(lines) |-> SplitOnce(lines[k], "|")]
    IN  IF \A k \in 1..Len(entries) : IsInt(entries[k][2])
        THEN [ok |-> TRUE,
              files |-> [k \in 1..Len(entries) |->
                            [name |-> entries[k][1], size |-> ToInt(entries[k][2])]]]
        ELSE [ok |-> FALSE, files |-> <<>>]

CListReply ==
    /\ cpc = "list"
    /\ CanRecv
    /\ LET f == Recvd
       IN  Step("idle", cop,
                IF f.type # "O" THEN Refused(cop, f)
                ELSE IF ~ParseListing(f.payload).ok
                THEN Raised(cop, <<"ValueError">>)
                ELSE Returned(cop, <<>>, 0, ParseListing(f.payload).files),
                <<>>)
    /\ UNCHANGED <<local, lastPut>>

(* get_file *)

GetRequest(filename, resume, offset) ==
    IF resume
    THEN Frame("R", filename \o <<"|", Str(offset), "|", "get">>)
    ELSE Frame("G", filename)

CGet(filename, resume, offset) ==
    /\ Begin(<<GetRequest(filename, resume, offset)>>)
    /\ cpc' = "get_meta"
    /\ cop' = [Op("get", "", filename, resume, offset, First)
                  EXCEPT !.dest = local["out"]]
    /\ UNCHANGED <<cres, local, lastPut>>

\* metadata.get(key, 0) of get_file's parse, 0 too when json.loads fails
MetaGet(payload, key) ==
    LET j == JsonLoads(payload)
    IN  IF j.ok /\ j.isobj /\ HasKey(j.members, key)
        THEN ToInt(Get(j.members, key))
        ELSE 0

\* A resume that hashes none of the bytes the destination holds
NothingHashed(resume, out) == <<>>

\* get_file's digest before its receive loop: a resume hashes the bytes the
\* destination file holds
ExistingHashed(resume, out) ==
    IF resume /\ out.exists THEN out.data ELSE <<>>

\* get_file on its first response: the metadata, then open(dest_path, mode)
CGetMeta ==
    /\ cpc = "get_meta"
    /\ CanRecv
    /\ LET f   == Recvd
           out == local["out"]
       IN  IF f.type # "O"
           THEN Step("idle", cop, Refused(cop, f), <<>>) /\ local' = local
           ELSE /\ Step("get_recv",
                        [cop EXCEPT
                            !.total = IF cop.resume THEN MetaGet(f.payload, "offset")
                                      ELSE 0,
                            !.sha = ExistingHashed(cop.resume, out)],
                        cres, <<>>)
                /\ local' = [local EXCEPT !["out"] =
                                LocalFile(out.name,
                                          IF cop.resume /\ out.exists THEN out.data
                                          ELSE <<>>,
                                          TRUE)]
    /\ UNCHANGED lastPut

\* get_file's receive loop, one frame
CGetRecv ==
    /\ cpc = "get_recv"
    /\ CanRecv
    /\ LET f == Recvd
       IN  IF f.type = "F"
           THEN /\ Step("get_recv",
                        [cop EXCEPT !.sha = @ \o f.payload,
                                    !.total = @ + Len(f.payload)],
                        cres, <<>>)
                /\ local' = [local EXCEPT !["out"].data = @ \o f.payload]
           ELSE /\ Step("idle", cop,
                        IF f = EOF THEN Raised(cop, <<"ConnectionError">>)
                        ELSE IF f.type = "S"
                        THEN IF HexDigest(cop.sha) = f.payload
                             THEN Returned(cop, HexDigest(cop.sha), cop.total, <<>>)
                             ELSE Raised(cop, <<"Checksum mismatch">>)
                        ELSE IF f.type = "E"
                        THEN Raised(cop, <<"Server error during transfer: ">>
                                             \o f.payload)
                        ELSE Raised(cop, <<"Unexpected message type: ", f.type>>),
                        <<>>)
                /\ local' = local
    /\ UNCHANGED lastPut


(* put_file *)

PutRequest(filename, file_size, resume, offset) ==
    IF resume
    THEN Frame("R", filename \o <<"|", Str(offset), "|", "put">>)
    ELSE Frame("P", JsonPutMeta(filename, file_size))

\* put_file up to its request; a missing source raises after the connect
CPut(src, resume, offset) ==
    /\ UNCHANGED <<local, lastPut>>
    /\ IF local[src].exists
       THEN /\ Begin(<<PutRequest(local[src].name, Len(local[src].data),
                                  resume, offset)>>)
            /\ cpc' = "put_ready"
            /\ cop' = Op("put", src, local[src].name, resume, offset, First)
            /\ cres' = cres
       ELSE /\ Begin(<<>>)
            /\ cres' = Raised(Op("put", src, <<>>, resume, offset, First),
                              <<"FileNotFoundError">>)
            /\ UNCHANGED <<cpc, cop>>

\* The frames of put_file's send loop over the bytes d
RECURSIVE FileFrames(_)
FileFrames(d) ==
    IF d = <<>> THEN <<>>
    ELSE <<Frame("F", ReadAt(d, 0, CHUNK_SIZE))>>
         \o FileFrames(SubSeq(d, CHUNK_SIZE + 1, Len(d)))

\* The bytes put_file hashes: the first offset bytes, then what it sends
Hashed(d, resume, offset) ==
    IF resume THEN ReadAt(d, 0, offset) \o SubSeq(d, offset + 1, Len(d)) ELSE d

\* What put_file sends as file data: the source from offset on
Sent(d, resume, offset) == IF resume THEN SubSeq(d, offset + 1, Len(d)) ELSE d

\* put_file on its first response: the F frames, then S
CPutReady ==
    /\ cpc = "put_ready"
    /\ CanRecv
    /\ LET f == Recvd
           d == local[cop.src].data
       IN  IF f.type # "O"
           THEN Step("idle", cop, Refused(cop, f), <<>>)
           ELSE Step("put_final",
                     [cop EXCEPT !.sha = Hashed(d, cop.resume, cop.offset),
                                 !.total = Len(Sent(d, cop.resume, cop.offset))],
                     cres,
                     FileFrames(Sent(d, cop.resume, cop.offset))
                     \o <<Frame("S", HexDigest(Hashed(d, cop.resume, cop.offset)))>>)
    /\ UNCHANGED <<local, lastPut>>

\* put_file on the final confirmation
CPutFinal ==
    /\ cpc = "put_final"
    /\ CanRecv
    /\ LET f  == Recvd
           ok == f.type = "O" /\ f.payload = HexDigest(cop.sha)
       IN  /\ Step("idle", cop,
                   IF f.type # "O" THEN Refused(cop, f)
                   ELSE IF ok THEN Returned(cop, HexDigest(cop.sha), cop.total, <<>>)
                   ELSE Raised(cop, <<"Checksum mismatch">>),
                   <<>>)
           /\ lastPut' = IF ~ok THEN lastPut
                         ELSE IF Len(lastPut) < 2 THEN Append(lastPut, cop.src)
                         ELSE <<lastPut[2], cop.src>>
    /\ UNCHANGED local

(* quit *)

CQuit ==
    /\ cpc = "idle"
    /\ IF sock = 0
       THEN /\ cres' = Returned(Op("quit", "", <<>>, FALSE, 0, First), <<>>, 0, <<>>)
            /\ ran' = 0
            /\ UNCHANGED <<fs, spc, h, cmd, resp, c2s, s2c, peerclosed, sock,
                           script, cpc, cop>>
       ELSE /\ Send(<<Frame("Q", <<>>)>>)
            /\ cpc' = "quit"
            /\ cop' = Op("quit", "", <<>>, FALSE, 0, First)
            /\ cres' = cres
    /\ UNCHANGED <<local, nops, lastPut>>

\* A quit that lets the exception of its recv_message out and keeps the
\* socket
QuitReplyRaises ==
    /\ cpc = "quit"
    /\ CanRecv
    /\ cpc' = "idle"
    /\ cop' = Idle
    /\ cres' = IF Recvd = EOF THEN Raised(cop, <<"ConnectionError">>)
               ELSE Returned(cop, <<>>, 0, <<>>)
    /\ sock' = IF Recvd = EOF THEN sock ELSE 0
    /\ peerclosed' = IF Recvd = EOF THEN peerclosed ELSE Hangup(peerclosed)
    /\ ran' = 0
    /\ UNCHANGED <<fs, spc, h, cmd, resp, c2s, s2c, local, nops, lastPut, script>>

\* quit after its recv_message, whatever that returned or raised: close()
CQuitReply ==
    /\ cpc = "quit"
    /\ CanRecv
    /\ cpc' = "idle"
    /\ cop' = Idle
    /\ cres' = Returned(cop, <<>>, 0, <<>>)
    /\ sock' = 0
    /\ peerclosed' = Hangup(peerclosed)
    /\ ran' = 0
    /\ UNCHANGED <<fs, spc, h, cmd, resp, c2s, s2c, local, nops, lastPut, script>>

(* --------------- SpecClient: the client driver and the server --------- *)

\* The file names the client uploads under
ClientNames == {NameA, NameASpace, NameAPart}

\* The content of the first source: empty, one chunk, more than a chunk
SourceContents == {<<>>, <<"x">>, <<"x", "y">>}

InitClient ==
    /\ InitServer
    /\ spc = [c \in Conns |-> "none"]
    /\ sock = 0
    /\ cpc = "idle"
    /\ cop = Idle
    /\ cres = NoResult
    /\ nops = 0
    /\ lastPut = <<>>
    /\ script = <<>>
    /\ \E N \in ClientNames, C1 \in SourceContents, C2 \in {<<"y">>} :
           local = [p \in Sources \cup {"out"} |->
                       IF p = "d1" THEN LocalFile(N, C1, TRUE)
                       ELSE IF p = "d2" THEN LocalFile(N, C2, TRUE)
                       ELSE LocalFile(<<p>>, <<>>, FALSE)]

\* The name both sources carry
TheName == local["d1"].name

\* The server's steps are those whose frames this client can make it read:
\* it sends no frame recv_message rejects, and no PUT-RESUME of it finds a
\* .part file, since the server deletes the .part of every PUT that fails.
NextClient ==
    \/ CConnect
    \/ CClose
    \/ CList
    \/ CListReply
    \/ \E resume \in BOOLEAN : \E offset \in 0..1 :
           (resume \/ offset = 0) /\ CGet(TheName, resume, offset)
    \/ CGetMeta
    \/ CGetRecv
    \/ \E src \in Sources : \E resume \in BOOLEAN : \E offset \in 0..1 :
           (resume \/ offset = 0) /\ CPut(src, resume, offset)
    \/ CPutReady
    \/ CPutFinal
    \/ CQuit
    \/ CQuitReply
    \/ ConnLost
    \/ \E c \in ClientConns : SrvQuit(c, {})
    \/ \E c \in ClientConns : SrvList(c, {})
    \/ \E c \in ClientConns : SrvGet(c, {})
    \/ \E c \in ClientConns : SrvGetStep(c)
    \/ \E c \in ClientConns : SrvPut(c, {})
    \/ \E c \in ClientConns : SrvResume(c, {})
    \/ \E c \in ClientConns : SrvChecksum(c, {})
    \/ \E c \in ClientConns : SrvUnknown(c, {})
    \/ \E c \in ClientConns : SrvEOF(c)
    \/ \E c \in ClientConns : SrvPutChunk(c, {}, {TRUE})
    \/ \E c \in ClientConns : SrvPutUnexpected(c, {})
    \/ \E c \in ClientConns : SrvPutEOF(c)

SpecClient == InitClient /\ [][NextClient]_vars


(* ------------------- properties checked under SpecClient -------------- *)

\* The get_file (not a resume) that has just ended was call number n and
\* the first operation on its connection.
GetEnded(n) ==
    /\ cpc = "idle"
    /\ nops = n
    /\ cres.op = "get"
    /\ ~cres.resume
    /\ cres.first

\* C1: after a PUT of (N, C) that completes, a GET of N delivers exactly C,
\* and the digests of both operations, the server's (final O, S) and the
\* client's, are the digest of C: put_file returned, so the get_file that
\* follows returns with C at its destination and with the digest of C.
C1_PutThenGetRoundTrip ==
    (GetEnded(2) /\ Len(lastPut) = 1) =>
        /\ cres.ok
        /\ local["out"].data = local[lastPut[1]].data
        /\ cres.sha = HexDigest(local[lastPut[1]].data)

\* C2: on one connection each exchange is strictly sequential: the server
\* dispatches as commands only the client's requests, and when the client's
\* first operation on a connection has ended no frame is left unread.
C2_StrictlySequential ==
    (sock # 0 /\ nops = 1) =>
        /\ cmd[sock].type \in {"", "L", "G", "P", "R", "Q"}
        /\ cpc = "idle" => s2c[sock] = <<>>

\* C5: after PUT(N, C1) and then PUT(N, C2) have completed, GET(N) returns
\* exactly C2 and LIST shows N once, with the size of C2.
C5_LastWriteWins ==
    (cpc = "idle" /\ nops = 3 /\ Len(lastPut) = 2 /\ cres.first) =>
        /\ (cres.op = "get" /\ ~cres.resume) =>
               /\ cres.ok
               /\ local["out"].data = local[lastPut[2]].data
        /\ cres.op = "list" =>
               /\ cres.ok
               /\ cres.files = <<[name |-> TheName,
                                  size |-> Len(local[lastPut[2]].data)]>>


(* ------ SpecSplit: a peer that uploads in two parts on connection 1 --- *)

PeerCloses == Frame("close", <<>>)

PeerConnects == Frame("connect", <<>>)

\* The peer's script for content C split at K: a PUT of all of C that it
\* drops after the first K bytes, a new connection, and a PUT-RESUME at
\* offset K with the rest of C and the digest of C.
SplitScript(C, K) ==
    <<Frame("P", PipeMeta(NameA, Len(C)))>>
    \o FileFrames(SubSeq(C, 1, K))
    \o <<PeerCloses, PeerConnects, Frame("R", PipeResume(NameA, K, "put"))>>
    \o FileFrames(SubSeq(C, K + 1, Len(C)))
    \o <<Frame("S", HexDigest(C))>>

\* The peer writes the next frame of its script
PeerSend ==
    /\ script # <<>>
    /\ Head(script) \notin {PeerCloses, PeerConnects}
    /\ spc[1] \notin {"none", "closed"}
    /\ c2s' = [c2s EXCEPT ![1] = Append(@, Head(script))]
    /\ script' = Tail(script)
    /\ ran' = 0
    /\ UNCHANGED <<fs, spc, h, cmd, resp, peerclosed, s2c, clivars>>

\* The peer drops its connection
PeerClose ==
    /\ script # <<>>
    /\ Head(script) = PeerCloses
    /\ peerclosed' = [peerclosed EXCEPT ![1] = TRUE]
    /\ script' = Tail(script)
    /\ ran' = 0
    /\ UNCHANGED <<fs, spc, h, cmd, resp, c2s, s2c, clivars>>

\* The peer connects again, once the server is through with the connection
\* it dropped
PeerConnect ==
    /\ script # <<>>
    /\ Head(script) = PeerConnects
    /\ spc[1] = "closed"
    /\ spc' = [spc EXCEPT ![1] = "await"]
    /\ cmd' = [cmd EXCEPT ![1] = NoFrame]
    /\ resp' = [resp EXCEPT ![1] = <<>>]
    /\ peerclosed' = [peerclosed EXCEPT ![1] = FALSE]
    /\ script' = Tail(script)
    /\ ran' = 0
    /\ UNCHANGED <<fs, h, c2s, s2c, clivars>>

InitSplit ==
    /\ InitServer
    /\ spc = [c \in Conns |-> IF c = 1 THEN "await" ELSE "none"]
    /\ sock = 0
    /\ cpc = "idle"
    /\ cop = <<>>
    /\ cres = <<>>
    /\ local = <<>>
    /\ nops = 0
    /\ lastPut = <<>>
    /\ \E C \in Contents(MaxLen) : \E K \in 0..Len(C) : script = SplitScript(C, K)

\* The server's steps are those this peer can make it take: no PUT-RESUME of
\* it is accepted, since the server deletes the .part of the PUT it drops.
NextSplit ==
    \/ PeerSend
    \/ PeerClose
    \/ PeerConnect
    \/ SrvPut(1, {})
    \/ SrvPutChunk(1, {}, {TRUE})
    \/ SrvPutEOF(1)
    \/ SrvEOF(1)
    \/ SrvResume(1, {})
    \/ SrvUnknown(1, {})
    \/ SrvChecksum(1, {})

SpecSplit == InitSplit /\ [][NextSplit]_vars

\* handle_put fed the frames of a peer that sends them all
RECURSIVE Feed(_, _)
Feed(r, frames) ==
    IF frames = <<>> \/ r.pc # "put" THEN r
    ELSE LET n == PutChunk(r.fs, 1, r.h, Head(frames).payload, TRUE)
         IN  Feed([n EXCEPT !.out = r.out \o @], Tail(frames))

\* One PUT of all of C into an empty store
SingleShot(C) ==
    Feed(HandlePut({}, 1, PipeMeta(NameA, Len(C))), FileFrames(C))

\* C7: for every content C and split point K, a PUT left partial after K
\* bytes and completed by a PUT-RESUME at offset K with the remaining bytes
\* ends like one PUT of all of C: when the server has read the peer's S (the
\* PUT was left before its commit), the committed file has the same bytes
\* and the last response is the same O.
C7_SplitUploadEqualsSingleShot ==
    [][\A C \in Contents(MaxLen) :
           (/\ script = <<>>
            /\ c2s[1] = <<Frame("S", HexDigest(C))>>
            /\ ~Exists(fs, NameA)
            /\ ran' = 1)
           => /\ Exists(fs', NameA)
              /\ At(fs', NameA).data = At(SingleShot(C).fs, NameA).data
              /\ resp'[1] # <<>>
              /\ Last(resp'[1]) = Last(SingleShot(C).out)]_vars


(* --------------- further properties checked under Spec ---------------- *)

\* The GET and GET-RESUME requests for a name
GetRequests(name) ==
    {Frame("G", name)}
    \cup {Frame("R", PipeResume(name, k, "get")) : k \in Sizes \cup {-1}}

\* C11: a GET or GET-RESUME for a name that does not exist in storage is
\* answered by exactly one frame, an E "File not found: ...": no O, F or S
\* is sent, the storage is unchanged and the connection awaits the next
\* command.
C11_MissingFileRefused ==
    [][\A c \in Conns :
           (spc[c] = "await" /\ ran' = c /\ cmd'[c].type \in {"G", "R"}) =>
               \A name \in {NameA, NameAPart, NameASpace} :
                   (cmd'[c] \in GetRequests(name) /\ ~Exists(fs, name))
                   => /\ Len(resp'[c]) = 1
                      /\ resp'[c][1].type = "E"
                      /\ StartsWith(resp'[c][1].payload, <<"File not found: ">>)
                      /\ fs' = fs
                      /\ spc'[c] = "await"]_vars


\* C15: on a Q frame read by the command loop the server sends exactly one
\* O "Goodbye", the connection is closed and its handler has ended: the
\* frames still queued behind Q are dropped, the server takes no further
\* step for the connection, and the storage is unchanged.
C15_QuitClosesAfterGoodbye ==
    [][\A c \in Conns :
           /\ (spc[c] = "await" /\ ran' = c /\ cmd'[c].type = "Q")
              => /\ resp'[c] = <<O(<<"Goodbye">>)>>
                 /\ spc'[c] = "closed"
                 /\ c2s'[c] = <<>>
                 /\ fs' = fs
           /\ spc[c] = "closed"
              => /\ ran' # c
                 /\ spc'[c] = "closed" => (resp'[c] = resp[c] /\ cmd'[c] = cmd[c])]_vars

\* A connection closed by Q over a storage that holds a committed file
C15_Witness ==
    \E c \in Conns :
        /\ spc[c] = "closed"
        /\ cmd[c].type = "Q"
        /\ resp[c] = <<O(<<"Goodbye">>)>>
        /\ Exists(fs, NameA)

\* The size a GET metadata payload announces, -1 when it is not a JSON
\* object with the one member "size"
AnnouncedSize(p) ==
    LET j == JsonLoads(p)
    IN  IF j.ok /\ j.isobj /\ Len(j.members) = 1 /\ HasKey(j.members, "size")
           /\ IsInt(Get(j.members, "size"))
        THEN ToInt(Get(j.members, "size"))
        ELSE -1

PutLoopStep(c, f) ==
    \/ SrvPutChunk(c, {f}, {TRUE})
    \/ SrvPutUnexpected(c, {f})
    \/ SrvPutBadFrame(c, {f})

\* The PUT for filename name has failed in this step: name.part is gone,
\* what is committed under name is as it was, and the step sent one frame
\* after sent, an E.
PutRefused(c, name, sent) ==
    /\ spc'[c] = "await"
    /\ Len(resp'[c]) = Len(sent) + 1
    /\ SubSeq(resp'[c], 1, Len(sent)) = sent
    /\ Last(resp'[c]).type = "E"
    /\ ~Exists(fs', TempPath(name))
    /\ Exists(fs', name) <=> Exists(fs, name)
    /\ Exists(fs, name) => At(fs', name) = At(fs, name)

C19_ResumeCommitsOnMatchingDigest ==
    [][\A c \in Conns :
           (spc[c] = "putresume" /\ ran' = c) =>
               LET name == h[c].filename
                   temp == TempPath(name)
                   D    == At(fs, temp).data
               IN  \A f \in RawFrames :
                       /\ (f.type = "F" /\ SrvPutResumeChunk(c, {f}, {TRUE}))
                          => /\ spc'[c] = "putresume"
                             /\ resp'[c] = resp[c]
                             /\ At(fs', temp).data = D \o f.payload
                       /\ (f.type = "S" /\ SrvPutResumeChecksum(c, {f}))
                          => /\ spc'[c] = "await"
                             /\ Len(resp'[c]) = Len(resp[c]) + 1
                             /\ IF f.payload = HexDigest(D)
                                THEN /\ Last(resp'[c]) = O(HexDigest(D))
                                     /\ ~Exists(fs', temp)
                                     /\ Exists(fs', name)
                                     /\ At(fs', name).data = D
                                ELSE /\ Last(resp'[c]).type = "E"
                                     /\ Exists(fs', name) <=> Exists(fs, name)
                                     /\ Exists(fs, name) => At(fs', name) = At(fs, name)
                                     /\ Exists(fs', temp)
                                     /\ At(fs', temp).data = D
                                     /\ HandlePutResume(fs', c,
                                            PipeResume(name, Len(D), "put")).pc
                                        = "putresume"]_vars

\* A PUT-RESUME has appended to a.part and was refused for its digest while
\* a committed a exists
C19_Witness ==
    \E c \in Conns :
        /\ spc[c] = "await"
        /\ cmd[c] = Frame("R", PipeResume(NameA, 1, "put"))
        /\ Len(resp[c]) = 2
        /\ resp[c][2] = E(<<"PUT RESUME failed: ", "Checksum mismatch">>)
        /\ Exists(fs, NameA)
        /\ Exists(fs, NameAPart)
        /\ SizeOf(fs, NameAPart) = 2

\* The payload p is a JSON object with exactly the members size = n and
\* offset = k
AnnouncesRange(p, n, k) ==
    LET j == JsonLoads(p)
    IN  /\ j.ok
        /\ j.isobj
        /\ Len(j.members) = 2
        /\ HasKey(j.members, "size")
        /\ HasKey(j.members, "offset")
        /\ Get(j.members, "size") = <<Str(n)>>
        /\ Get(j.members, "offset") = <<Str(k)>>

\* C20: a GET-RESUME of an existing file of n bytes at offset k is answered,
\* when k >= n, by the one frame E "Offset k exceeds file size n"; otherwise
\* by O with size n and offset k, then the bytes from offset k to the end of
\* the file cut into F frames of CHUNK_SIZE bytes, then S with the digest of
\* the transmitted bytes only.
C20_GetResumeStreamsTail ==
    [][\A c \in Conns : \A k \in Sizes \cup {-1} :
           (/\ ran' = c
            /\ cmd'[c] = Frame("R", PipeResume(NameA, k, "get"))
            /\ Exists(fs, NameA)) =>
               LET D == At(fs, NameA).data
                   n == Len(D)
                   m == (n - k + CHUNK_SIZE - 1) \div CHUNK_SIZE
                   r == resp'[c]
               IN  IF k >= n
                   THEN /\ r = <<E(<<"Offset ", Str(k), " exceeds file size ", Str(n)>>)>>
                        /\ spc'[c] = "await"
                        /\ fs' = fs
                   ELSE /\ spc'[c] \in {"get", "await"}
                        /\ Len(r) >= 1
                        /\ r[1].type = "O"
                        /\ AnnouncesRange(r[1].payload, n, k)
                        /\ \A i \in 1..m :
                               i + 1 <= Len(r) =>
                                   r[i + 1] = Frame("F",
                                       SubSeq(D, k + (i - 1) * CHUNK_SIZE + 1,
                                              IF k + i * CHUNK_SIZE < n
                                              THEN k + i * CHUNK_SIZE ELSE n))
                        /\ Len(r) <= m + 2
                        /\ Len(r) = m + 2 =>
                               r[m + 2] = Frame("S", HexDigest(SubSeq(D, k + 1, n)))
                        /\ spc'[c] = "await" <=> Len(r) = m + 2]_vars

\* C22: a frame whose length field is 0 ends the connection in every state
\* in which the server reads frames: at the command loop and inside a PUT
\* or a PUT-RESUME exchange.
C22_ZeroLengthFrameCloses ==
    [][\A c \in Conns :
           (/\ ran' = c
            /\ spc[c] \in {"await", "put", "putresume"}
            /\ \/ SrvBadFrame(c, {Frame(LEN0, <<>>)})
               \/ SrvPutBadFrame(c, {Frame(LEN0, <<>>)})
               \/ SrvPutResumeBadFrame(c, {Frame(LEN0, <<>>)}))
           => spc'[c] = "closed"]_vars

\* C25: an S frame read by the command loop is answered with exactly one E
\* frame, changes nothing in the storage and leaves the connection at the
\* command loop.
C25_StrayChecksumRefused ==
    [][\A c \in Conns :
           (spc[c] = "await" /\ ran' = c /\ cmd'[c].type = "S")
           => /\ Len(resp'[c]) = 1
              /\ resp'[c][1].type = "E"
              /\ fs' = fs
              /\ spc'[c] = "await"]_vars

\* An S frame has been refused at the command loop over a storage that
\* holds a committed file
C25_Witness ==
    \E c \in Conns :
        /\ spc[c] = "await"
        /\ ran = c
        /\ cmd[c].type = "S"
        /\ resp[c] = <<E(<<"Unexpected checksum message">>)>>
        /\ Exists(fs, NameA)

\* PUT metadata that cannot be parsed: a pipe form whose size is no integer,
\* text that is neither pipe form nor an object, an object lacking
\* filename or size, bytes that are not UTF-8
BadPutMeta ==
    {NameA \o <<"|", "ten">>,
     <<"junk">>, <<"5">>, <<BadByte>>,
     JsonDumps(<< <<"size", JInt(1)>> >>),
     JsonDumps(<< <<"filename", JStr(NameA)>> >>)}

\* C26: a PUT whose metadata cannot be parsed is answered with exactly one
\* E "Invalid metadata" frame and nothing else, and the storage (.part
\* files and committed files alike) is left as it was.
C26_BadMetadataRefused ==
    [][\A c \in Conns :
           (/\ spc[c] = "await"
            /\ ran' = c
            /\ cmd'[c].type = "P"
            /\ cmd'[c].payload \in BadPutMeta)
           => /\ resp'[c] = <<E(<<"Invalid metadata: ">>)>>
              /\ fs' = fs]_vars

\* C27: PUT metadata that is an object with a string filename and a
\* non-negative integer size is accepted with exactly that filename and
\* size, whatever the filename, a filename with a pipe included: O "Ready
\* to receive" is the first answer and, for a size above 0, the handler
\* waits for data with <filename>.part staged.
C27_ObjectMetadataAccepted ==
    [][\A c \in Conns : \A n \in {NameA, NamePipe} : \A k \in {0, 1} :
           (/\ spc[c] = "await"
            /\ ran' = c
            /\ cmd'[c] = Frame("P", JsonPutMeta(n, k)))
           => /\ resp'[c] # <<>>
              /\ resp'[c][1] = O(<<"Ready to receive">>)
              /\ k > 0 => /\ spc'[c] = "put"
                          /\ h'[c].filename = n
                          /\ h'[c].file_size = k
                          /\ Exists(fs', TempPath(n))]_vars

\* The committed file N as a peer can observe it: absent, or its bytes
Observed(f, N) == IF Exists(f, N) THEN <<At(f, N).data>> ELSE <<>>

\* Connection c's step belongs to a PUT or PUT-RESUME for filename N: the
\* command loop has just read its P or R frame, or its handler goes on
UploadStep(c, N) ==
    \/ /\ spc[c] = "await"
       /\ cmd'[c].type = "P"
       /\ ParsePutMeta(cmd'[c].payload).err = ""
       /\ ParsePutMeta(cmd'[c].payload).filename = N
    \/ /\ spc[c] = "await"
       /\ cmd'[c].type = "R"
       /\ ParseResume(cmd'[c].payload).err = ""
       /\ ParseResume(cmd'[c].payload).filename = N
    \/ /\ spc[c] \in {"put", "putresume"}
       /\ h[c].filename = N

\* The step ends the command with the O that acknowledges a commit
Commits(c) ==
    /\ spc'[c] = "await"
    /\ resp'[c] # <<>>
    /\ Last(resp'[c]).type = "O"

\* C30: with one connection at a time, no step of a PUT or PUT-RESUME for
\* filename N changes the committed file N, except the step that ends the
\* command with the O of its commit; so a command that ends with E or with
\* the loss of the connection leaves N present with the same bytes, or
\* absent, as it was before the command.
C30_FailedUploadKeepsCommittedFile ==
    [][\A c \in Conns : \A N \in {NameA, NameAPart} :
           (ran' = c /\ UploadStep(c, N) /\ ~Commits(c))
           => Observed(fs', N) = Observed(fs, N)]_vars

\* A PUT for a, accepted and then failed, has ended with E while the
\* committed file a holds bytes
C30_Witness ==
    \E c \in Conns :
        /\ ran = c
        /\ spc[c] = "await"
        /\ cmd[c].type = "P"
        /\ ParsePutMeta(cmd[c].payload).err = ""
        /\ ParsePutMeta(cmd[c].payload).filename = NameA
        /\ Len(resp[c]) = 2
        /\ resp[c][1] = O(<<"Ready to receive">>)
        /\ resp[c][2].type = "E"
        /\ Exists(fs, NameA)
        /\ At(fs, NameA).data # <<>>

(* ------------- further properties checked under SpecConc -------------- *)

\* C12: when PUT handlers on two connections receive interleaved F frames
\* for the same filename N and a stream has run to its end, its handler
\* reaches the commit step: it renames N.part to N and answers O with the
\* digest of its stream, and the bytes then committed under N are the bytes
\* of that stream.
C12_EachConcurrentPutCommits ==
    [][\A c \in Conns :
           (spc[c] = "put" /\ ran' = c /\ spc'[c] = "await")
           => \E b \in Bytes :
                  /\ Exists(fs', NameA)
                  /\ Last(resp'[c]) = O(HexDigest(h[c].sha \o <<b>>))
                  /\ At(fs', NameA).data = h[c].sha \o <<b>>]_vars


\* A staged upload: a file under a .part name that no commit rename gave it
Staged(r) == r.name # <<>> /\ EndsWith(r.name, ".part") /\ ~r.committed

\* C29: the server never sends in an F frame of a GET or GET-RESUME bytes
\* of a staged .part upload, whatever name is requested and whatever the
\* other connection is doing.
C29_GetNeverServesStagedUpload ==
    [][\A c \in Conns :
           (/\ spc[c] = "get"
            /\ ran' = c
            /\ resp'[c] # <<>>
            /\ Last(resp'[c]).type = "F")
           => ~Staged(Held(fs', c))]_vars

\* The number of bytes the F frames among frames carry
RECURSIVE FBytes(_)
FBytes(frames) ==
    IF frames = <<>> THEN 0
    ELSE (IF Head(frames).type = "F" THEN Len(Head(frames).payload) ELSE 0)
         + FBytes(Tail(frames))

\* C31: when a GET of the committed file a that was answered with O ends
\* with its S, the size the O announced equals the number of bytes its F
\* frames carried, whatever the other connection commits to the same
\* filename during the GET.
C31_AnnouncedSizeIsStreamed ==
    [][\A c \in Conns :
           (/\ spc[c] = "get"
            /\ ran' = c
            /\ cmd[c] = Frame("G", NameA)
            /\ resp'[c] # <<>>
            /\ Last(resp'[c]).type = "S")
           => /\ resp'[c][1] = O(JsonDumps(<< <<"size", JInt(h[c].file_size)>> >>))
              /\ FBytes(resp'[c]) = h[c].file_size]_vars

(* ------------- further properties checked under SpecClient ------------ *)

\* C13: when the connection is lost while get_file is receiving the F
\* frames of a fresh GET, the call fails and the destination path is as it
\* was before the call: no new file and no truncated file.  The GET is the
\* first operation on its connection, so the frames it reads are its own.
C13_FailedGetLeavesDestination ==
    [][(/\ cpc = "get_recv"
        /\ ~cop.resume
        /\ cop.first
        /\ CanRecv
        /\ Recvd = EOF
        /\ cpc' = "idle")
       => /\ ~cres'.ok
          /\ local'["out"] = cop.dest]_vars

\* C14: list_files, get_file and put_file called on a driver that has no
\* open connection fail without opening a connection and without sending
\* a frame.
C14_NoConnectionNoOperation ==
    [][(sock = 0 /\ cpc = "idle" /\ nops' = nops + 1)
       => /\ sock' = 0
          /\ c2s' = c2s
          /\ spc' = spc
          /\ cpc' = "idle"
          /\ ~cres'.ok]_vars

\* C16: quit always returns normally and leaves the driver without an open
\* connection, whatever its recv_message returned or raised; called with no
\* open connection it sends nothing and changes nothing.
C16_QuitAlwaysDisconnects ==
    [][/\ (cpc = "quit" /\ cpc' = "idle")
          => (cres'.op = "quit" /\ cres'.ok /\ sock' = 0)
       /\ (cpc = "idle" /\ sock = 0 /\ cres' # cres /\ cres'.op = "quit")
          => /\ cres'.ok
             /\ cpc' = "idle"
             /\ <<sock, local, fs, spc, c2s, s2c, peerclosed>>' =
                    <<sock, local, fs, spc, c2s, s2c, peerclosed>>]_vars

\* quit has returned although its Q never reached the command loop: the
\* connection was lost, and the server closed it on end of stream
C16_Witness ==
    /\ cpc = "idle"
    /\ cres.op = "quit"
    /\ cres.ok
    /\ sock = 0
    /\ \E c \in ClientConns : spc[c] = "closed" /\ cmd[c].type \notin {"Q", ""}


\* The entries list_files should return over storage f: the committed files
\* with their sizes
CommittedEntries(f) ==
    {[name |-> r.name, size |-> Len(r.data)] : r \in {q \in f : q.committed}}

\* C28: list_files, given the server's answer to its own LIST, returns one
\* entry per committed file of the storage with its name and size, and for
\* an empty store the answer is an O and the list is empty.
C28_ListReturnsCommittedFiles ==
    [][(/\ cpc = "list"
        /\ cpc' = "idle"
        /\ cop.first
        /\ s2c[sock] # <<>>)
       => /\ Head(s2c[sock]).type = "O"
          /\ cres'.ok
          /\ Len(cres'.files) = Cardinality(CommittedEntries(fs))
          /\ {cres'.files[k] : k \in 1..Len(cres'.files)} = CommittedEntries(fs)]_vars

(* ------- SpecResume: resumed downloads into a destination that exists -- *)

\* The server holds the committed file a; the destination of the client is
\* absent or holds bytes of an earlier download.
InitResume ==
    /\ \E D \in Contents(MaxLen) : fs = {File(NameA, D, TRUE, {})}
    /\ h = [c \in Conns |-> H0]
    /\ cmd = [c \in Conns |-> NoFrame]
    /\ resp = [c \in Conns |-> <<>>]
    /\ ran = 0
    /\ c2s = [c \in Conns |-> <<>>]
    /\ s2c = [c \in Conns |-> <<>>]
    /\ peerclosed = [c \in Conns |-> FALSE]
    /\ spc = [c \in Conns |-> "none"]
    /\ sock = 0
    /\ cpc = "idle"
    /\ cop = Idle
    /\ cres = NoResult
    /\ nops = 0
    /\ lastPut = <<>>
    /\ script = <<>>
    /\ \E P \in Contents(MaxLen), there \in BOOLEAN :
           /\ there \/ P = <<>>
           /\ local = [p \in Sources \cup {"out"} |->
                          IF p = "d1" THEN LocalFile(NameA, <<>>, TRUE)
                          ELSE IF p = "out" THEN LocalFile(<<"out">>, P, there)
                          ELSE LocalFile(<<p>>, <<>>, FALSE)]

NextResume ==
    \/ \E offset \in 0..MaxLen : CGet(NameA, TRUE, offset)
    \/ CGetMeta
    \/ CGetRecv
    \/ CClose
    \/ \E c \in ClientConns : SrvResume(c, {})
    \/ \E c \in ClientConns : SrvGetStep(c)
    \/ \E c \in ClientConns : SrvEOF(c)

SpecResume == InitResume /\ [][NextResume]_vars

\* C21: get_file with resume = True compares the digest of the bytes its
\* destination held followed by the F payloads it received with the digest
\* in S, which the server took over the transmitted range only; whenever
\* the destination was not empty the two differ and the call fails with a
\* checksum mismatch, whatever the destination holds in the end.
C21_ResumedGetFailsOnPrefix ==
    [][(/\ cpc = "get_recv"
        /\ cop.resume
        /\ cop.first
        /\ cop.dest.exists
        /\ cop.dest.data # <<>>
        /\ CanRecv
        /\ Recvd.type = "S"
        /\ cpc' = "idle")
       => LET before   == cop.dest.data
              now      == local["out"].data
              received == SubSeq(now, Len(before) + 1, Len(now))
          IN  /\ now = before \o received
              /\ cop.sha = before \o received
              /\ Recvd.payload = HexDigest(received)
              /\ HexDigest(cop.sha) # Recvd.payload
              /\ cres' = Raised(cop, <<"Checksum mismatch">>)]_vars

\* A resumed download has failed on its checksum although the destination
\* now holds what the server's file holds
C21_Witness ==
    /\ cpc = "idle"
    /\ cres.op = "get"
    /\ cres.resume
    /\ cres.first
    /\ cres.err = <<"Checksum mismatch">>
    /\ local["out"].data # <<>>
    /\ local["out"].data = At(fs, NameA).data


(* ---- SpecFrame: send_message and recv_message over a stream of bytes -- *)

\* In this specification the stream from the server to the client is kept
\* byte by byte: resp[1] holds the frames send_message has written, s2c[1]
\* the bytes written and not yet read, cpc and cop the position and the
\* locals of the client's recv_message, cres the frames it has returned.

MaxFrames == 2

\* The values of payload bytes: 0, as in a length field, and 76, as in a type
WireBytes == {0, 76}

WirePayloads == UNION {[1..k -> WireBytes] : k \in 0..2}

FrameTypes == KnownTypes \cup {"F", "O", "E"}

\* msg_type.encode('ascii')
Ord(t) ==
    CASE t = "E" -> 69 [] t = "F" -> 70 [] t = "G" -> 71 [] t = "L" -> 76
      [] t = "O" -> 79 [] t = "P" -> 80 [] t = "Q" -> 81 [] t = "R" -> 82
      [] t = "S" -> 83

\* msg_type_bytes.decode('ascii') of a byte below 128
Chr(b) ==
    IF \E t \in FrameTypes : Ord(t) = b
    THEN CHOOSE t \in FrameTypes : Ord(t) = b
    ELSE "?"

\* struct.pack('>I', n)
Pack(n) ==
    <<(n \div 16777216) % 256, (n \div 65536) % 256, (n \div 256) % 256, n % 256>>

\* A length field read with the low byte first
UnpackLittle(b) == b[1] + 256 * b[2] + 65536 * b[3] + 16777216 * b[4]

\* struct.unpack('>I', b)[0]
Unpack(b) == 16777216 * b[1] + 65536 * b[2] + 256 * b[3] + b[4]

\* The bytes send_message writes for a frame
Encode(f) == Pack(Len(f.payload) + 1) \o <<Ord(f.type)>> \o f.payload

\* The locals of recv_message: the bytes recv_exact has so far, the length
\* and the type it has read, the exception it raised
R0 == [data |-> <<>>, length |-> 0, type |-> "", err |-> ""]

\* The number of bytes the recv_exact in progress was called for
Wanted ==
    IF cpc = "recv_len" THEN 4
    ELSE IF cpc = "recv_type" THEN 1
    ELSE cop.length - 1

\* send_message(t, p)
SendMessage(t, p) ==
    /\ spc[1] = "await"
    /\ Len(resp[1]) < MaxFrames
    /\ resp' = [resp EXCEPT ![1] = @ \o <<Frame(t, p)>>]
    /\ s2c' = [s2c EXCEPT ![1] = @ \o Encode(Frame(t, p))]
    /\ UNCHANGED <<fs, spc, h, cmd, ran, c2s, peerclosed, clivars, script>>

\* The sender's end is closed; the bytes after the first k still in flight
\* never arrive
WireClosed(k) ==
    /\ spc[1] = "await"
    /\ k <= Len(s2c[1])
    /\ spc' = [spc EXCEPT ![1] = "closed"]
    /\ s2c' = [s2c EXCEPT ![1] = SubSeq(@, 1, k)]
    /\ UNCHANGED <<fs, h, cmd, resp, ran, c2s, peerclosed, clivars, script>>

\* One sock.recv inside recv_exact returns j bytes; when that completes the
\* recv_exact, recv_message goes on to its next read or returns the frame
RecvRead(j) ==
    /\ cpc \in {"recv_len", "recv_type", "recv_payload"}
    /\ j >= 1
    /\ j <= Wanted - Len(cop.data)
    /\ j <= Len(s2c[1])
    /\ s2c' = [s2c EXCEPT ![1] = SubSeq(@, j + 1, Len(@))]
    /\ LET data == cop.data \o SubSeq(s2c[1], 1, j)
       IN  IF Len(data) < Wanted
           THEN /\ cop' = [cop EXCEPT !.data = data]
                /\ UNCHANGED <<cpc, cres>>
           ELSE IF cpc = "recv_len"
           THEN IF Unpack(data) < 1
                THEN /\ cpc' = "raised"
                     /\ cop' = [R0 EXCEPT !.err = "ValueError"]
                     /\ cres' = cres
                ELSE /\ cpc' = "recv_type"
                     /\ cop' = [R0 EXCEPT !.length = Unpack(data)]
                     /\ cres' = cres
           ELSE IF cpc = "recv_type" /\ data[1] >= 128
           THEN /\ cpc' = "raised"
                /\ cop' = [R0 EXCEPT !.err = "UnicodeDecodeError"]
                /\ cres' = cres
           ELSE IF cpc = "recv_type" /\ cop.length > 1
           THEN /\ cpc' = "recv_payload"
                /\ cop' = [cop EXCEPT !.data = <<>>, !.type = Chr(data[1])]
                /\ cres' = cres
           ELSE /\ cpc' = "recv_len"
                /\ cop' = R0
                /\ cres' = cres \o <<IF cpc = "recv_type"
                                     THEN Frame(Chr(data[1]), <<>>)
                                     ELSE Frame(cop.type, data)>>
    /\ UNCHANGED <<fs, spc, h, cmd, resp, ran, c2s, peerclosed, sock, local,
                   nops, lastPut, script>>

\* sock.recv returns b'': recv_exact raises ConnectionError
RecvEOF ==
    /\ cpc \in {"recv_len", "recv_type", "recv_payload"}
    /\ s2c[1] = <<>>
    /\ spc[1] = "closed"
    /\ cpc' = "raised"
    /\ cop' = [R0 EXCEPT !.err = "ConnectionError"]
    /\ UNCHANGED <<fs, spc, h, cmd, resp, ran, c2s, s2c, peerclosed, sock, cres,
                   local, nops, lastPut, script>>

InitFrame ==
    /\ InitServer
    /\ spc = [c \in Conns |-> IF c = 1 THEN "await" ELSE "none"]
    /\ sock = 1
    /\ cpc = "recv_len"
    /\ cop = R0
    /\ cres = <<>>
    /\ local = <<>>
    /\ nops = 0
    /\ lastPut = <<>>
    /\ script = <<>>

NextFrame ==
    \/ \E t \in FrameTypes, p \in WirePayloads : SendMessage(t, p)
    \/ \E k \in 0..(MaxFrames * 7) : WireClosed(k)
    \/ \E j \in 1..4 : RecvRead(j)
    \/ RecvEOF

SpecFrame == InitFrame /\ [][NextFrame]_vars

\* C23: the frames recv_message has returned are the first of the frames
\* written with send_message, with their types and payloads, in order,
\* however the reads cut the stream; once every byte written has been read
\* every frame has been returned; and recv_message fails only with the
\* connection-closed error, when the peer's end is closed and no byte is
\* left, returning no partial frame.
C23_FramesRoundTrip ==
    /\ Len(cres) <= Len(resp[1])
    /\ cres = SubSeq(resp[1], 1, Len(cres))
    /\ (spc[1] = "await" /\ s2c[1] = <<>>)
       => (cpc = "recv_len" /\ cop.data = <<>> /\ cres = resp[1])
    /\ cpc = "raised"
       => (cop.err = "ConnectionError" /\ spc[1] = "closed" /\ s2c[1] = <<>>)

\* Two frames have been returned, the second with a payload of two bytes
C23_Witness ==
    /\ Len(cres) = 2
    /\ cres = resp[1]
    /\ Len(cres[2].payload) = 2


(* ---- SpecLive: one connection whose peer stays inside an exchange ----- *)

\* The steps of Spec without the peer closing its end inside a PUT or a
\* PUT-RESUME exchange: there it keeps sending frames.
NextLive ==
    \/ SrvQuit(1, RawFrames)
    \/ SrvList(1, RawFrames)
    \/ SrvGet(1, RawFrames)
    \/ SrvGetStep(1)
    \/ SrvPut(1, RawFrames)
    \/ SrvResume(1, RawFrames)
    \/ SrvChecksum(1, RawFrames)
    \/ SrvUnknown(1, RawFrames)
    \/ SrvBadFrame(1, RawFrames)
    \/ SrvEOF(1)
    \/ SrvPutChunk(1, RawFrames, {TRUE})
    \/ SrvPutUnexpected(1, RawFrames)
    \/ SrvPutBadFrame(1, RawFrames)
    \/ SrvPutResumeChunk(1, RawFrames, {TRUE})
    \/ SrvPutResumeChecksum(1, RawFrames)
    \/ SrvPutResumeUnexpected(1, RawFrames)
    \/ SrvPutResumeBadFrame(1, RawFrames)
    \/ Accept(1)

\* The event loop runs the connection's task whenever it can take a step
SpecLive == Init /\ [][NextLive]_vars /\ WF_vars(NextLive)

\* The command loop of connection c has read a command frame
CommandRead(c) == ran = c /\ cmd[c].type \in KnownTypes

\* The command of connection c has been answered to its end: the last frame
\* sent is S, O or E and the command loop reads again, or the connection is
\* closed after Q
CommandEnded(c) ==
    \/ /\ spc[c] = "await"
       /\ resp[c] # <<>>
       /\ Last(resp[c]).type \in {"S", "O", "E"}
    \/ spc[c] = "closed" /\ cmd[c].type = "Q"

\* C24: with fair scheduling and a peer that keeps sending frames, every
\* command frame the command loop reads is eventually followed by the
\* command's terminal frame (S, the final O, or E) with the connection back
\* at the command loop, or closed for Q; no handler runs forever.
C24_EveryCommandEnds == CommandRead(1) ~> CommandEnded(1)

====
